---- MODULE Spec2Model ----
(***************************************************************************)
(* Model of server.js: the three JSON collections (reports, users,         *)
(* verifications) and the Express handlers that read and write them.       *)
(*                                                                         *)
(* Every handler body is one synchronous callback (readFileSync /          *)
(* writeFileSync, no await, no callback inside the try block), so the      *)
(* Node.js event loop runs it to completion before any other handler       *)
(* starts.  Requests that are in flight at the same time are therefore     *)
(* served one whole handler after another, in an arbitrary order: each     *)
(* handler is one action, and Next lets any of them, with any input, come  *)
(* next.                                                                   *)
(*                                                                         *)
(* A write that throws (SpecStore) is a handler of its own: it ends in     *)
(* the catch block, and the file it was writing is either as it was or     *)
(* truncated, which readJson reads as the empty array.                     *)
(*                                                                         *)
(* JavaScript values that matter to the arithmetic are tagged pairs:       *)
(* <<"num", n>>, <<"undefined", 0>>, <<"null", 0>>, <<"nan", 0>>.          *)
(***************************************************************************)
EXTENDS Integers, Sequences, FiniteSets, TLC

(* ------------------------------ bounds -------------------------------- *)

\* Largest number of records the two append-only collections (reports and
\* verifications) hold together.
MaxRecords == 2

\* Largest numeric points/co2 value a credit may produce.
MaxPoints == 20

(* ------------------------- program constants -------------------------- *)

\* server.js:109  accepted = req.file.size > 2048
AcceptThreshold == 2048

(* --------------------------- JavaScript values ------------------------ *)

Num(n) == <<"num", n>>

Undefined == <<"undefined", 0>>

Null == <<"null", 0>>

NaN == <<"nan", 0>>

IsNum(v) == v[1] = "num"

\* A string field that is absent from a request body or a stored record.
NoStr == "<undefined>"

\* Falsy as a test for undefined alone (x === undefined in place of !x).
FalsyUndefinedOnly(s) == s = NoStr

\* JavaScript truthiness of a string-valued request field: undefined and ""
\* are falsy.
Falsy(s) == s = NoStr \/ s = ""

\* x || 0 on a tagged value: undefined, null, NaN and 0 are falsy.
OrZero(v) == IF v[1] \in {"undefined", "null", "nan"} \/ v = Num(0) THEN Num(0) ELSE v

\* a + b where a is a number or NaN (the result of x || 0) and b is a number
\* or undefined: a number plus undefined is NaN.
Plus(a, b) == IF IsNum(a) /\ IsNum(b) THEN Num(a[2] + b[2]) ELSE NaN

\* JSON.stringify followed by JSON.parse on one value: NaN is written as
\* null; an undefined property is omitted and reads back as undefined.
JsonValue(v) == IF v = NaN THEN Null ELSE v

(* ------------------------------- inputs ------------------------------- *)

Names == {"Ava", "Bo"}

Actions == {"Clean", "recycle", "constructor"}

\* Upload sizes: the boundary itself and the first size past it.
Sizes == {AcceptThreshold, AcceptThreshold + 1}

\* req.file: absent, or an upload of some size.
NoFile == [present |-> FALSE, size |-> 0, filename |-> NoStr, originalname |-> NoStr]

Files == {NoFile} \cup
         {[present |-> TRUE, size |-> s, filename |-> "u.jpg", originalname |-> "p.jpg"] : s \in Sizes}

\* Number-valued fields of a POST /api/users payload (nothing validates them).
PayloadNums == {Undefined, Num(-10)}

\* A POST /api/users payload { name, points, co2 } with both numbers, with
\* points alone, or with neither.
Payloads ==
    {p \in [name : {"Ava"}, points : PayloadNums, co2 : PayloadNums] :
        p.points = Undefined => p.co2 = Undefined}

\* The uploads multer hands to the handler.
Uploads == {f \in Files : f.present}

\* The upload of the requests that lack another field.
AnUpload == [present |-> TRUE, size |-> AcceptThreshold + 1, filename |-> "u.jpg",
             originalname |-> "p.jpg"]

\* POST /api/verify requests: the complete ones (Ava with every action, Bo
\* with one), and ones that lack the user, the action (absent or empty),
\* the upload, or all three.
VerifyRequests ==
    [user : {"Ava"}, action : Actions, file : Uploads]
    \cup [user : Names, action : {"Clean"}, file : Uploads]
    \cup [user : {NoStr, ""}, action : {"Clean"}, file : {AnUpload}]
    \cup [user : {"Ava"}, action : {NoStr, ""}, file : {AnUpload}]
    \cup {[user |-> "Ava", action |-> "Clean", file |-> NoFile],
          [user |-> NoStr, action |-> NoStr, file |-> NoFile]}

\* The id of an approve request body: absent, a number, or the string "1".
ReqIds == {Undefined, <<"str", 1>>} \cup {<<"num", n>> : n \in 1..MaxRecords}

ReportBodies == {"litter"}

(* ------------------------------- state -------------------------------- *)

\* reports, users, verifications: the content of the three data files.
\* now: the reading of the clock.  res: the route the last handler served
\* and the response it sent.
VARIABLES reports, users, verifications, now, res

vars == <<reports, users, verifications, now, res>>

(* ------------------------------ helpers ------------------------------- *)

\* A data file holds either the JSON text of an array (valid, with the
\* array it parses to) or content that JSON.parse rejects.
FileOf(arr) == [valid |-> TRUE, data |-> arr]

\* readJson: the parsed array, or [] when reading or parsing throws.
ReadJson(file) == IF file.valid THEN file.data ELSE <<>>

\* JSON round trip of one users entry.
JsonUser(u) == [name |-> u.name, points |-> JsonValue(u.points), co2 |-> JsonValue(u.co2)]

\* writeJson of the users array: the content the file then holds.
WriteUsers(arr) == FileOf([i \in 1..Len(arr) |-> JsonUser(arr[i])])

\* writeJson handed the record just pushed or updated in place of the array:
\* the file then holds that one record.
WriteJsonRecord(arr) == FileOf(<<arr[Len(arr)]>>)

\* writeJson of an array of records whose fields are strings and integers
\* (JSON writes and reads these back unchanged).
WriteJson(arr) == FileOf(arr)

\* A file that holds the beginning of a JSON text and no more: JSON.parse
\* rejects it, whatever array the text was of.
Truncated(arr) == [valid |-> FALSE, data |-> <<>>]

\* What a file can hold after fs.writeFileSync threw while writing arr over
\* it: the old content (the file could not be opened for writing), or the
\* beginning of the new text (the file was opened, which empties it, and a
\* write then failed, for instance on a full disk).
FailedWrite(file, arr) == {file, Truncated(arr)}

\* arr.findIndex(x => x.name === name): 1-based index of the first match,
\* 0 for -1.
FindByName(arr, name) ==
    IF \E i \in 1..Len(arr) : arr[i].name = name
    THEN CHOOSE i \in 1..Len(arr) :
            arr[i].name = name /\ \A j \in 1..(i - 1) : arr[j].name # name
    ELSE 0

\* x.id == id (loose equality): a number equals the same number and the
\* numeric string that spells it; undefined equals no number.
LooseEq(recId, id) == id[1] \in {"num", "str"} /\ id[2] = recId

\* The scan that keeps the last match (findLastIndex for findIndex).
FindLastById(arr, id) ==
    IF \E i \in 1..Len(arr) : LooseEq(arr[i].id, id)
    THEN CHOOSE i \in 1..Len(arr) :
            LooseEq(arr[i].id, id) /\ \A j \in (i + 1)..Len(arr) : ~LooseEq(arr[j].id, id)
    ELSE 0

\* arr.findIndex(x => x.id == id): 1-based index of the first match, 0 for -1.
FindById(arr, id) ==
    IF \E i \in 1..Len(arr) : LooseEq(arr[i].id, id)
    THEN CHOOSE i \in 1..Len(arr) :
            LooseEq(arr[i].id, id) /\ \A j \in 1..(i - 1) : ~LooseEq(arr[j].id, id)
    ELSE 0

\* String.prototype.toLowerCase on the action strings.
ToLowerCase(s) ==
    CASE s = "Clean" -> "clean"
      [] s = "PLANT" -> "plant"
      [] OTHER -> s

ZeroAward == [points |-> Num(0), co2 |-> Num(0)]

\* A property lookup that finds nothing: undefined.
NotFound == [found |-> FALSE, points |-> Undefined, co2 |-> Undefined]

\* A property every object literal inherits from Object.prototype:
\* "constructor" is the Object function and "__proto__" is Object.prototype,
\* both truthy, neither with a points or co2 property.
Inherited(key) ==
    IF key \in {"constructor", "__proto__"}
    THEN [found |-> TRUE, points |-> Undefined, co2 |-> Undefined]
    ELSE NotFound

\* mapping[key] on the object literal of POST /api/verify.
MappingVerify(key) ==
    CASE key = "plant" -> [found |-> TRUE, points |-> Num(20), co2 |-> Num(20)]
      [] key = "clean" -> [found |-> TRUE, points |-> Num(10), co2 |-> Num(10)]
      [] key = "awareness" -> [found |-> TRUE, points |-> Num(5), co2 |-> Num(5)]
      [] OTHER -> Inherited(key)

\* mapping[key] on the object literal of POST /api/verifications/approve.
MappingApprove(key) ==
    CASE key = "plant" -> [found |-> TRUE, points |-> Num(20), co2 |-> Num(20)]
      [] key = "clean" -> [found |-> TRUE, points |-> Num(10), co2 |-> Num(10)]
      [] key = "awareness" -> [found |-> TRUE, points |-> Num(5), co2 |-> Num(5)]
      [] OTHER -> Inherited(key)

\* m || { points: 0, co2: 0 } for a looked-up m.
OrZeroAward(m) == IF m.found THEN [points |-> m.points, co2 |-> m.co2] ELSE ZeroAward

\* award of POST /api/verify: mapping[action.toLowerCase()] || {0, 0}
AwardVerify(action) == OrZeroAward(MappingVerify(ToLowerCase(action)))

\* award of POST /api/verifications/approve
AwardApprove(action) == OrZeroAward(MappingApprove(ToLowerCase(action)))

\* The upsert with the award assigned in place of added (= for +=).
CreditAssigns(arr, user, award) ==
    LET idx == FindByName(arr, user)
    IN  IF idx > 0
        THEN [arr EXCEPT ![idx].points = award.points, ![idx].co2 = award.co2]
        ELSE Append(arr, [name |-> user, points |-> award.points, co2 |-> award.co2])

\* The upsert without the lookup: a new entry is pushed every time.
CreditPushes(arr, user, award) ==
    Append(arr, [name |-> user, points |-> award.points, co2 |-> award.co2])

\* The ledger upsert of submit and approve, on the parsed users array.
Credit(arr, user, award) ==
    LET idx == FindByName(arr, user)
    IN  IF idx > 0
        THEN [arr EXCEPT ![idx].points = Plus(OrZero(arr[idx].points), award.points),
                         ![idx].co2 = Plus(OrZero(arr[idx].co2), award.co2)]
        ELSE Append(arr, [name |-> user, points |-> award.points, co2 |-> award.co2])

\* The merge as a replacement (arr[idx] = u): what u lacks is lost.
AssignReplaces(target, u) == u

\* Object.assign(target, u): every own property of u overwrites target's;
\* a property u lacks keeps target's value.
Assign(target, u) ==
    [name |-> IF u.name = NoStr THEN target.name ELSE u.name,
     points |-> IF u.points = Undefined THEN target.points ELSE u.points,
     co2 |-> IF u.co2 = Undefined THEN target.co2 ELSE u.co2]

\* Every numeric points/co2 of a users file is at most MaxPoints.
Within(file) ==
    \A i \in 1..Len(ReadJson(file)) :
        /\ IsNum(ReadJson(file)[i].points) => ReadJson(file)[i].points[2] <= MaxPoints
        /\ IsNum(ReadJson(file)[i].co2) => ReadJson(file)[i].co2[2] <= MaxPoints

\* The two append-only collections have room for one more record.
Room == Len(ReadJson(reports)) + Len(ReadJson(verifications)) < MaxRecords

\* The response of the last handler (none yet): route, HTTP status code,
\* the body's status, id and award, and the array a list route answers with.
NoRes ==
    [op |-> "none", code |-> 0, status |-> "none", id |-> 0, award |-> ZeroAward,
     body |-> <<>>]

(* ------------------------------- Init --------------------------------- *)

\* ensureFile writes '[]' to each of the three files.
Init ==
    /\ reports = FileOf(<<>>)
    /\ users = FileOf(<<>>)
    /\ verifications = FileOf(<<>>)
    /\ now = 1
    /\ res = NoRes

(* ------------------------------ actions ------------------------------- *)

\* Some record was created at the current reading of the clock.
Used ==
    \/ \E i \in 1..Len(ReadJson(reports)) : ReadJson(reports)[i].id = now
    \/ \E i \in 1..Len(ReadJson(verifications)) : ReadJson(verifications)[i].id = now

\* The wall clock moves on between two handlers.  The handlers compare ids
\* for equality only, so the readings are numbered in the order in which
\* records use them: the clock moves to the next number once the current
\* one is the id of a record, and only while a record can still be created
\* (a collection that a failed write emptied has room again, so the readings
\* are capped as well).
Tick ==
    /\ Used
    /\ Room
    /\ now <= MaxRecords
    /\ now' = now + 1
    /\ UNCHANGED <<reports, users, verifications, res>>

\* POST /api/reports
PostReports(body) ==
    /\ Room
    /\ LET arr == ReadJson(reports)
           rec == [body |-> body, id |-> now, timestamp |-> now]
       IN  /\ reports' = WriteJson(Append(arr, rec))
           /\ res' = [NoRes EXCEPT !.op = "reports", !.code = 200, !.status = "ok",
                                   !.id = rec.id]
    /\ UNCHANGED <<users, verifications, now>>

\* POST /api/users
PostUsers(u) ==
    LET arr == ReadJson(users)
        idx == FindByName(arr, u.name)
        out == IF idx > 0 THEN [arr EXCEPT ![idx] = Assign(arr[idx], u)]
                          ELSE Append(arr, u)
    IN  /\ users' = WriteUsers(out)
        /\ res' = [NoRes EXCEPT !.op = "users", !.code = 200, !.status = "ok"]
        /\ UNCHANGED <<reports, verifications, now>>

\* POST /api/verify, the 400 branch: a required field is missing.
VerifyMissing(user, action, file) ==
    /\ Falsy(user) \/ Falsy(action) \/ ~file.present
    /\ res' = [NoRes EXCEPT !.op = "verify", !.code = 400, !.status = "error"]
    /\ UNCHANGED <<reports, users, verifications, now>>

\* The submit working from a read taken before the latest write to
\* verifications: its write puts the new record in the place of the
\* previous writer's.
VerifyStoreStale(user, action, file) ==
    /\ ~(Falsy(user) \/ Falsy(action) \/ ~file.present)
    /\ Room
    /\ LET cur == ReadJson(verifications)
           arr == IF Len(cur) > 0 THEN SubSeq(cur, 1, Len(cur) - 1) ELSE cur
           accepted == file.size > AcceptThreshold
           record == [id |-> now, user |-> user, action |-> action,
                      filename |-> file.filename, originalName |-> file.originalname,
                      status |-> IF accepted THEN "accepted" ELSE "pending",
                      timestamp |-> now]
           award == AwardVerify(action)
       IN  /\ verifications' = WriteJson(Append(arr, record))
           /\ IF accepted
              THEN /\ users' = WriteUsers(Credit(ReadJson(users), user, award))
                   /\ res' = [NoRes EXCEPT !.op = "verify", !.code = 200,
                                           !.status = "accepted", !.id = record.id,
                                           !.award = award]
              ELSE /\ users' = users
                   /\ res' = [NoRes EXCEPT !.op = "verify", !.code = 200,
                                           !.status = "pending", !.id = record.id]
    /\ Within(users')
    /\ UNCHANGED <<reports, now>>

\* POST /api/verify with all fields present: append the record, and credit
\* the user when the upload is auto-accepted.
VerifyStore(user, action, file) ==
    /\ ~(Falsy(user) \/ Falsy(action) \/ ~file.present)
    /\ Room
    /\ LET arr == ReadJson(verifications)
           accepted == file.size > AcceptThreshold
           record == [id |-> now, user |-> user, action |-> action,
                      filename |-> file.filename, originalName |-> file.originalname,
                      status |-> IF accepted THEN "accepted" ELSE "pending",
                      timestamp |-> now]
           award == AwardVerify(action)
       IN  /\ verifications' = WriteJson(Append(arr, record))
           /\ IF accepted
              THEN /\ users' = WriteUsers(Credit(ReadJson(users), user, award))
                   /\ res' = [NoRes EXCEPT !.op = "verify", !.code = 200,
                                           !.status = "accepted", !.id = record.id,
                                           !.award = award]
              ELSE /\ users' = users
                   /\ res' = [NoRes EXCEPT !.op = "verify", !.code = 200,
                                           !.status = "pending", !.id = record.id]
    /\ Within(users')
    /\ UNCHANGED <<reports, now>>

\* POST /api/verify
Verify(user, action, file) ==
    \/ VerifyMissing(user, action, file)
    \/ VerifyStore(user, action, file)

\* The 404 branch without its return: the handler goes on to arr[-1].status,
\* throws, and the catch block answers 500.
ApproveNotFoundThrows(id) ==
    /\ FindById(ReadJson(verifications), id) = 0
    /\ res' = [NoRes EXCEPT !.op = "approve", !.code = 500, !.status = "error"]
    /\ UNCHANGED <<reports, users, verifications, now>>

\* POST /api/verifications/approve, the 404 branch.
ApproveNotFound(id) ==
    /\ FindById(ReadJson(verifications), id) = 0
    /\ res' = [NoRes EXCEPT !.op = "approve", !.code = 404, !.status = "error"]
    /\ UNCHANGED <<reports, users, verifications, now>>

\* The approval with the status misspelt ('approved' for 'accepted').
ApproveFoundApproved(id) ==
    LET arr == ReadJson(verifications)
        idx == FindById(arr, id)
    IN  /\ idx > 0
        /\ LET arr2 == [arr EXCEPT ![idx].status = "approved"]
               award == AwardApprove(arr2[idx].action)
           IN  /\ verifications' = WriteJson(arr2)
               /\ users' = WriteUsers(Credit(ReadJson(users), arr2[idx].user, award))
               /\ res' = [NoRes EXCEPT !.op = "approve", !.code = 200, !.status = "ok",
                                       !.award = award]
        /\ Within(users')
        /\ UNCHANGED <<reports, now>>

\* POST /api/verifications/approve of an id that matches a record: set
\* the first match accepted, then credit its user.
ApproveFound(id) ==
    LET arr == ReadJson(verifications)
        idx == FindById(arr, id)
    IN  /\ idx > 0
        /\ LET arr2 == [arr EXCEPT ![idx].status = "accepted"]
               award == AwardApprove(arr2[idx].action)
           IN  /\ verifications' = WriteJson(arr2)
               /\ users' = WriteUsers(Credit(ReadJson(users), arr2[idx].user, award))
               /\ res' = [NoRes EXCEPT !.op = "approve", !.code = 200, !.status = "ok",
                                       !.award = award]
        /\ Within(users')
        /\ UNCHANGED <<reports, now>>

\* POST /api/verifications/approve
Approve(id) ==
    \/ ApproveNotFound(id)
    \/ ApproveFound(id)

(* ------------------------------- Next --------------------------------- *)

Next ==
    \/ Tick
    \/ \E b \in ReportBodies : PostReports(b)
    \/ \E u \in Payloads : PostUsers(u)
    \/ \E r \in VerifyRequests : Verify(r.user, r.action, r.file)
    \/ \E id \in ReqIds : Approve(id)

Spec == Init /\ [][Next]_vars

\* The handlers of the verification workflow alone (submit and approve),
\* with the clock: no direct write of the users collection.
NextLedger ==
    \/ \E id \in ReqIds : Approve(id)
    \/ \E r \in VerifyRequests : Verify(r.user, r.action, r.file)
    \/ Tick

SpecLedger == Init /\ [][NextLedger]_vars

\* The server of Spec that keeps serving the requests it receives: the
\* event loop runs the handler of every request, one handler at a time.
SpecServing == Init /\ [][Next]_vars /\ WF_vars(Next)

(* -------------------------- storage failures -------------------------- *)

\* The answer of a catch block: 500 with status 'error'.
Caught(op) == [NoRes EXCEPT !.op = op, !.code = 500, !.status = "error"]

\* The list routes over a readJson without its catch: the exception of an
\* unreadable file reaches the framework, which answers 500.
ListThrows(op, file) ==
    /\ res' = IF file.valid
              THEN [NoRes EXCEPT !.op = op, !.code = 200, !.status = "ok",
                                 !.body = file.data]
              ELSE Caught(op)
    /\ UNCHANGED <<reports, users, verifications, now>>

\* GET /api/reports, /api/users, /api/verifications: res.json(readJson(..)).
List(op, file) ==
    /\ res' = [NoRes EXCEPT !.op = op, !.code = 200, !.status = "ok",
                            !.body = ReadJson(file)]
    /\ UNCHANGED <<reports, users, verifications, now>>

GetReports == List("list reports", reports)

GetUsers == List("list users", users)

GetVerifications == List("list verifications", verifications)

\* POST /api/reports whose writeJson throws.
PostReportsWriteFails(body) ==
    /\ Room
    /\ LET arr == ReadJson(reports)
           rec == [body |-> body, id |-> now, timestamp |-> now]
       IN  reports' \in FailedWrite(reports, Append(arr, rec))
    /\ res' = Caught("reports")
    /\ UNCHANGED <<users, verifications, now>>

\* POST /api/verify with all fields present, one of whose writes throws:
\* the write of verifications (line 122), or, on the auto-accept path and
\* after that write went through, the write of users (line 140).
VerifyWriteFails(user, action, file) ==
    /\ ~(Falsy(user) \/ Falsy(action) \/ ~file.present)
    /\ Room
    /\ LET arr == ReadJson(verifications)
           accepted == file.size > AcceptThreshold
           record == [id |-> now, user |-> user, action |-> action,
                      filename |-> file.filename, originalName |-> file.originalname,
                      status |-> IF accepted THEN "accepted" ELSE "pending",
                      timestamp |-> now]
           award == AwardVerify(action)
       IN  \/ /\ verifications' \in FailedWrite(verifications, Append(arr, record))
              /\ users' = users
           \/ /\ accepted
              /\ verifications' = WriteJson(Append(arr, record))
              /\ users' \in FailedWrite(users, Credit(ReadJson(users), user, award))
    /\ res' = Caught("verify")
    /\ UNCHANGED <<reports, now>>

\* POST /api/verifications/approve of an id that matches a record, one of
\* whose writes throws: the write of verifications (line 167), or, after
\* that write went through, the write of users (line 184).
ApproveWriteFails(id) ==
    LET arr == ReadJson(verifications)
        idx == FindById(arr, id)
    IN  /\ idx > 0
        /\ LET arr2 == [arr EXCEPT ![idx].status = "accepted"]
               award == AwardApprove(arr2[idx].action)
           IN  \/ /\ verifications' \in FailedWrite(verifications, arr2)
                  /\ users' = users
               \/ /\ verifications' = WriteJson(arr2)
                  /\ users' \in FailedWrite(users,
                                    Credit(ReadJson(users), arr2[idx].user, award))
        /\ res' = Caught("approve")
        /\ UNCHANGED <<reports, now>>

\* The submits of the runs with failing writes: Ava's of the action 'Clean'
\* with an upload of either size, and one that lacks every field.
StoreRequests ==
    [user : {"Ava"}, action : {"Clean"}, file : Uploads]
    \cup {[user |-> NoStr, action |-> NoStr, file |-> NoFile]}

\* The handlers of the three collections' list routes, of reports, submit
\* and approve, with writes that may fail.
NextStore ==
    \/ Tick
    \/ GetReports
    \/ GetUsers
    \/ GetVerifications
    \/ \E b \in ReportBodies : PostReports(b)
    \/ \E b \in ReportBodies : PostReportsWriteFails(b)
    \/ \E r \in StoreRequests : Verify(r.user, r.action, r.file)
    \/ \E r \in StoreRequests : VerifyWriteFails(r.user, r.action, r.file)
    \/ \E id \in ReqIds : Approve(id)
    \/ \E id \in ReqIds : ApproveWriteFails(id)

SpecStore == Init /\ [][NextStore]_vars

(* ----------------------------- properties ----------------------------- *)

\* The step formulas below have the shape  handler(input) /\ case => effect.
\* Every handler records its route in res, so  res'.op = route  follows
\* from  handler(input): stated in front, it only spares TLC the evaluation
\* of the handler on the steps of other routes.

Reps == ReadJson(reports)

Vers == ReadJson(verifications)

Ledger == ReadJson(users)

\* The numeric value of a points/co2 field, a missing or null one being 0.
NumOf(v) == IF IsNum(v) THEN v[2] ELSE 0

Has(arr, n) == \E i \in 1..Len(arr) : arr[i].name = n

\* The entry of name n in a users array that has one.
EntryOf(arr, n) == arr[CHOOSE i \in 1..Len(arr) : arr[i].name = n]

PointsOf(arr, n) == IF Has(arr, n) THEN EntryOf(arr, n).points ELSE Undefined

Co2Of(arr, n) == IF Has(arr, n) THEN EntryOf(arr, n).co2 ELSE Undefined

\* AwardMapping as the specification states it: the amount (points and co2
\* alike) of a lower-cased action, 0 for every action outside the table.
TableAmount(key) ==
    CASE key = "plant" -> 20
      [] key = "clean" -> 10
      [] key = "awareness" -> 5
      [] OTHER -> 0

AmountOf(action) == TableAmount(ToLowerCase(action))

\* A request id names a record: the number it carries or spells is the id.
IdNames(rec, id) == id # Undefined /\ id[2] = rec.id

\* The first record of vs that id names (0 if none).
FirstNamed(vs, id) ==
    IF \E i \in 1..Len(vs) : IdNames(vs[i], id)
    THEN CHOOSE i \in 1..Len(vs) : IdNames(vs[i], id) /\ \A j \in 1..(i - 1) : ~IdNames(vs[j], id)
    ELSE 0

\* Sum of the table amounts of the accepted records of user n among the
\* first k records of vs.
RECURSIVE AcceptedSum(_, _, _)
AcceptedSum(vs, n, k) ==
    IF k = 0 THEN 0
    ELSE AcceptedSum(vs, n, k - 1)
         + (IF vs[k].user = n /\ vs[k].status = "accepted" THEN AmountOf(vs[k].action) ELSE 0)

\* A request with user, action and upload all present and non-empty.
Complete(r) == r.user \notin {NoStr, ""} /\ r.action \notin {NoStr, ""} /\ r.file.present

\* The requests that lack a field, the complete ones, and the complete
\* ones whose upload passes the threshold.
IncompleteRequests == {r \in VerifyRequests : ~Complete(r)}

CompleteRequests == {r \in VerifyRequests : Complete(r)}

LargeRequests == {r \in CompleteRequests : r.file.size > 2048}

\* The entry of n holds exactly the numbers p (points) and c (co2).
Holds(arr, n, p, c) == Has(arr, n) /\ PointsOf(arr, n) = Num(p) /\ Co2Of(arr, n) = Num(c)

\* The entry of n exists and its numeric values are p (points) and c (co2).
Amounts(arr, n, p, c) ==
    Has(arr, n) /\ NumOf(PointsOf(arr, n)) = p /\ NumOf(Co2Of(arr, n)) = c

\* Every entry of a name other than n is the same in old and new, and no
\* entry is dropped.
OthersKept(old, new, n) ==
    /\ Len(new) >= Len(old)
    /\ \A i \in 1..Len(old) : old[i].name # n => new[i] = old[i]
    /\ \A i \in 1..Len(new) : new[i].name # n => i <= Len(old)

\* C1: under submit and approve alone, from empty collections, every
\* user's points and co2 equal the sum of the table amounts of that user's
\* accepted verification records (each accepted record credited once).
C1_LedgerIsSumOfAccepted ==
    \A n \in Names :
        /\ NumOf(PointsOf(Ledger, n)) = AcceptedSum(Vers, n, Len(Vers))
        /\ NumOf(Co2Of(Ledger, n)) = AcceptedSum(Vers, n, Len(Vers))

\* C2: a complete submit of more than 2048 bytes appends an accepted record
\* and raises the user's entry by exactly the table amount of the action
\* (creating it with that amount); one of 2048 bytes or less appends a
\* pending record and leaves the users collection unchanged.
C2_SubmitThreshold ==
    [][res'.op = "verify" =>
       \A r \in CompleteRequests :
          Verify(r.user, r.action, r.file) =>
             /\ Len(Vers') = Len(Vers) + 1
             /\ IF r.file.size > 2048
                THEN /\ Vers'[Len(Vers')].status = "accepted"
                     /\ Amounts(Ledger', r.user,
                              NumOf(PointsOf(Ledger, r.user)) + AmountOf(r.action),
                              NumOf(Co2Of(Ledger, r.user)) + AmountOf(r.action))
                ELSE /\ Vers'[Len(Vers')].status = "pending"
                     /\ users' = users]_vars

\* C3: approving the id of a pending record sets that record accepted and
\* raises its user's entry by the table amount of its action, once.
C3_ApprovePending ==
    [][res'.op = "approve" =>
       \A id \in ReqIds : \A i \in 1..Len(Vers) :
          (IdNames(Vers[i], id) /\ Vers[i].status = "pending" /\ Approve(id)) =>
             /\ Vers'[i].status = "accepted"
             /\ Amounts(Ledger', Vers[i].user,
                      NumOf(PointsOf(Ledger, Vers[i].user)) + AmountOf(Vers[i].action),
                      NumOf(Co2Of(Ledger, Vers[i].user)) + AmountOf(Vers[i].action))]_vars

\* C4: approving a record that is already accepted leaves the users
\* collection as it was.
C4_ApproveAcceptedNoOp ==
    [][res'.op = "approve" =>
       \A id \in ReqIds :
          (FirstNamed(Vers, id) > 0 /\ Vers[FirstNamed(Vers, id)].status = "accepted"
             /\ Approve(id)) =>
          users' = users]_vars

\* C5: approving an id that names no record answers 404 with status
\* 'error' and leaves the three collections unchanged.
C5_ApproveNotFound ==
    [][res'.op = "approve" =>
       \A id \in ReqIds :
          (FirstNamed(Vers, id) = 0 /\ Approve(id)) =>
             /\ res'.code = 404
             /\ res'.status = "error"
             /\ UNCHANGED <<reports, users, verifications>>]_vars

\* C5 witness: an approve was answered 404 while records exist.
C5_Witness == res.op = "approve" /\ res.code = 404 /\ Len(Vers) > 0

\* C6: a submit that lacks the user, the action or the upload answers 400
\* and writes nothing to verifications or users.
C6_MissingFields ==
    [][res'.op = "verify" =>
       \A r \in IncompleteRequests :
          Verify(r.user, r.action, r.file) =>
             /\ res'.code = 400
             /\ UNCHANGED <<verifications, users>>]_vars

\* C6 witness: a submit was answered 400 while records and entries exist.
C6_Witness == res.op = "verify" /\ res.code = 400 /\ Len(Vers) > 0 /\ Len(Ledger) > 0

\* The award a response carries is the pair {n, n}.
AwardIs(a, n) == a = [points |-> Num(n), co2 |-> Num(n)]

\* Every user's numeric points and co2 are the same in old and new.
SameNumbers(old, new) ==
    \A n \in Names :
        /\ NumOf(PointsOf(new, n)) = NumOf(PointsOf(old, n))
        /\ NumOf(Co2Of(new, n)) = NumOf(Co2Of(old, n))

\* A credit for an action pays the table amount, and one for an action
\* outside the table leaves every user's numbers where they were.
PaysTable(action) ==
    /\ AwardIs(res'.award, AmountOf(action))
    /\ AmountOf(action) = 0 => SameNumbers(Ledger, Ledger')

\* C7: on the auto-accept path and on the approval path alike the award is
\* the table amount of the lower-cased action (plant 20, clean 10,
\* awareness 5, anything else 0), and a credit for an action outside the
\* table leaves the user's numeric points and co2 at their previous values.
C7_AwardTable ==
    [][/\ res'.op = "verify" =>
            \A r \in LargeRequests :
               Verify(r.user, r.action, r.file) => PaysTable(r.action)
       /\ res'.op = "approve" =>
            \A id \in ReqIds :
               (FirstNamed(Vers, id) > 0 /\ Approve(id)) =>
                  PaysTable(Vers[FirstNamed(Vers, id)].action)]_vars

\* One credit of the award A (a pair of numbers) for user n arrived whole:
\* the entry of n is its prior numeric value plus A, and no other entry
\* changed or went missing.
Credited(n, A) ==
    (IsNum(A.points) /\ IsNum(A.co2)) =>
        /\ Holds(Ledger', n, NumOf(PointsOf(Ledger, n)) + A.points[2],
                 NumOf(Co2Of(Ledger, n)) + A.co2[2])
        /\ OthersKept(Ledger, Ledger', n)

\* C8: every credit a handler issues, by an accepted submit or by an
\* approval, with an award A of two numbers, adds exactly A to the entry
\* of its user whatever handlers ran before it and in whatever order; so N
\* credits of A leave the entry at the prior value plus N times A.
C8_NoCreditLost ==
    [][/\ res'.op = "verify" =>
            \A r \in LargeRequests :
               Verify(r.user, r.action, r.file) => Credited(r.user, res'.award)
       /\ res'.op = "approve" =>
            \A id \in ReqIds :
               (FirstNamed(Vers, id) > 0 /\ Approve(id)) =>
                  Credited(Vers[FirstNamed(Vers, id)].user, res'.award)]_vars

\* C8 witness: two credits of {10, 10} for Ava (two accepted records of
\* hers, the later one credited by the last handler) stand at {20, 20}.
C8_Witness ==
    /\ Len(Vers) = 2
    /\ \A i \in 1..2 : Vers[i].user = "Ava" /\ Vers[i].status = "accepted"
                        /\ AmountOf(Vers[i].action) = 10
    /\ res.status \in {"accepted", "ok"}
    /\ Holds(Ledger, "Ava", 20, 20)

\* C9: the users collection never holds two entries of the same name.
C9_OneEntryPerName ==
    \A i, j \in 1..Len(Ledger) : i # j => Ledger[i].name # Ledger[j].name

\* C9 witness: after credits for both names and a direct upsert of a
\* credited name, the collection holds the two entries.
C9_Witness ==
    /\ res.op = "users"
    /\ Len(Vers) = 2
    /\ Len(Ledger) = 2
    /\ Has(Ledger, "Ava") /\ Has(Ledger, "Bo")
    /\ PointsOf(Ledger, "Ava") = Num(-10)

\* C10: no two verification records share an id, and no two reports do.
C10_UniqueIds ==
    /\ \A i, j \in 1..Len(Vers) : i # j => Vers[i].id # Vers[j].id
    /\ \A i, j \in 1..Len(Reps) : i # j => Reps[i].id # Reps[j].id

\* Every verification record is 'pending' or 'accepted'.
StatusInRange == \A i \in 1..Len(Vers) : Vers[i].status \in {"pending", "accepted"}

\* C11: the status of every verification record is 'pending' or 'accepted'
\* in every state; no step drops a record, and a step that changes the
\* status of a record is an approve that takes it from 'pending' to
\* 'accepted', so an accepted record stays accepted.
C11_StatusLifecycle ==
    /\ []StatusInRange
    /\ [][\A i \in 1..Len(Vers) :
             /\ i <= Len(Vers')
             /\ Vers'[i].status # Vers[i].status =>
                   /\ Vers[i].status = "pending"
                   /\ Vers'[i].status = "accepted"
                   /\ res'.op = "approve"]_vars

\* C11 witness: Bo's only record, submitted pending (Bo's balance is one
\* award of 'Clean'), was approved by the last handler and is accepted.
C11_Witness ==
    /\ Len(Vers) = 1
    /\ Vers[1].user = "Bo"
    /\ Vers[1].status = "accepted"
    /\ res.op = "approve" /\ res.code = 200
    /\ Holds(Ledger, "Bo", 10, 10)

\* A verification record with its status blanked: the fields a submit sets
\* and no later operation may touch.
Submitted(rec) == [rec EXCEPT !.status = "-"]

FirstEntry(arr, n) ==
    IF Has(arr, n)
    THEN CHOOSE i \in 1..Len(arr) : arr[i].name = n /\ \A j \in 1..(i - 1) : arr[j].name # n
    ELSE 0

\* The field of the merged entry: the payload's value when the payload has
\* the field, the entry's previous value when it does not.
Merged(new, old, given) == IF given = Undefined THEN new = old ELSE new = given

\* C13: a direct upsert with payload u merges u into the first entry of
\* that name (each field of u replaces the entry's, each field u lacks is
\* kept) with the number of entries and every other entry unchanged; when
\* no entry has the name, u becomes the new last entry and the existing
\* entries are unchanged.
C13_DirectUpsert ==
    [][res'.op = "users" =>
       \A u \in Payloads :
          PostUsers(u) =>
             LET idx == FirstEntry(Ledger, u.name)
             IN  IF idx > 0
                 THEN /\ Len(Ledger') = Len(Ledger)
                      /\ \A i \in 1..Len(Ledger) : i # idx => Ledger'[i] = Ledger[i]
                      /\ Ledger'[idx].name = u.name
                      /\ Merged(Ledger'[idx].points, Ledger[idx].points, u.points)
                      /\ Merged(Ledger'[idx].co2, Ledger[idx].co2, u.co2)
                 ELSE /\ Len(Ledger') = Len(Ledger) + 1
                      /\ \A i \in 1..Len(Ledger) : Ledger'[i] = Ledger[i]
                      /\ Ledger'[Len(Ledger')] = u]_vars

\* C13 witness: Ava's entry, credited {10, 10}, took the points of a
\* payload that carried no co2 and kept its co2; Bo's entry stands beside.
C13_Witness ==
    /\ res.op = "users"
    /\ Len(Ledger) = 2
    /\ PointsOf(Ledger, "Ava") = Num(-10)
    /\ Co2Of(Ledger, "Ava") = Num(10)
    /\ Holds(Ledger, "Bo", 10, 10)

\* A points or co2 value that is a non-negative integer.
NonNegative(v) == IsNum(v) /\ v[2] >= 0

\* C14: every entry of the users collection has points and co2 that are
\* non-negative integers, whatever submits, approvals and direct upserts
\* ran.
C14_NonNegative ==
    \A i \in 1..Len(Ledger) : NonNegative(Ledger[i].points) /\ NonNegative(Ledger[i].co2)

\* A list route answered with the empty collection.
ListedEmpty == res'.code = 200 /\ res'.body = <<>>

\* C15: reading a collection whose file cannot be parsed never fails and
\* yields the empty sequence: each list route answers 200 with an empty
\* array, a submit that succeeds leaves its record alone in verifications,
\* and an approve finds no record.
C15_ReadNeverFails ==
    [][/\ (GetReports /\ ~reports.valid) => ListedEmpty
       /\ (GetUsers /\ ~users.valid) => ListedEmpty
       /\ (GetVerifications /\ ~verifications.valid) => ListedEmpty
       /\ (res'.op = "verify" /\ ~verifications.valid) =>
             \A r \in CompleteRequests :
                VerifyStore(r.user, r.action, r.file) => Len(Vers') = 1
       /\ (res'.op = "approve" /\ ~verifications.valid) =>
             \A id \in ReqIds :
                (Approve(id) \/ ApproveWriteFails(id)) => res'.code = 404]_vars

\* C15 witness: the verifications file is unreadable (a write to it
\* failed after Ava had been credited for a record in it) and the list
\* route has just answered 200 with an empty array.
C15_Witness ==
    /\ res.op = "list verifications"
    /\ res.code = 200
    /\ res.body = <<>>
    /\ ~verifications.valid
    /\ Holds(Ledger, "Ava", 10, 10)

\* A record was created at the clock reading k and is in its collection.
Kept(k) ==
    \/ \E i \in 1..Len(Reps) : Reps[i].id = k
    \/ \E i \in 1..Len(Vers) : Vers[i].id = k

\* An update is lost: a record was written at an earlier reading of the
\* clock (the clock moves on only from a reading at which a record was
\* written) and a later writer's write has left it out.
LostUpdate == \E k \in 1..(now - 1) : ~Kept(k)

NeitherChanged == Vers' = Vers /\ Ledger' = Ledger

\* C17: a submit or an approve one of whose writes fails answers 500 and
\* rolls nothing back: either neither collection is changed (the write of
\* verifications failed), or the record is in verifications with status
\* 'accepted' and the users collection is unchanged (the write of users
\* failed after the write of verifications).
C17_FailedWrite ==
    [][/\ res'.op = "verify" =>
            \A r \in CompleteRequests :
               VerifyWriteFails(r.user, r.action, r.file) =>
                  /\ res'.code = 500
                  /\ \/ NeitherChanged
                     \/ /\ Ledger' = Ledger
                        /\ Len(Vers') = Len(Vers) + 1
                        /\ Vers'[Len(Vers')].status = "accepted"
       /\ res'.op = "approve" =>
            \A id \in ReqIds :
               ApproveWriteFails(id) =>
                  /\ res'.code = 500
                  /\ \/ NeitherChanged
                     \/ /\ Ledger' = Ledger
                        /\ Len(Vers') = Len(Vers)
                        /\ Vers'[FirstNamed(Vers, id)].status = "accepted"]_vars

\* C18: an approve that succeeds sets the status of the first record its
\* id names and changes nothing else: every other field of that record,
\* every other verification record, the length and order of verifications,
\* every users entry of another name and the reports collection stay as
\* they were.
C18_ApproveFrame ==
    [][res'.op = "approve" =>
       \A id \in ReqIds :
          (FirstNamed(Vers, id) > 0 /\ Approve(id)) =>
             LET idx == FirstNamed(Vers, id)
             IN  /\ res'.code = 200
                 /\ Len(Vers') = Len(Vers)
                 /\ \A i \in 1..Len(Vers) :
                       Vers'[i] = IF i = idx THEN [Vers[i] EXCEPT !.status = "accepted"]
                                             ELSE Vers[i]
                 /\ OthersKept(Ledger, Ledger', Vers[idx].user)
                 /\ reports' = reports]_vars

\* C18 witness: two records share an id, Ava's (first, submitted pending)
\* and Bo's (auto-accepted and credited); the approve of that id went to
\* Ava's record and credited Ava once, and Bo's entry is as it was.
C18_Witness ==
    /\ res.op = "approve" /\ res.code = 200
    /\ Len(Vers) = 2
    /\ Vers[1].id = Vers[2].id
    /\ Vers[1].user = "Ava" /\ Vers[1].status = "accepted"
    /\ Vers[2].user = "Bo" /\ Vers[2].status = "accepted"
    /\ Holds(Ledger, "Ava", 10, 10)
    /\ Holds(Ledger, "Bo", 10, 10)

\* C19: submit and approve persist the verification record as 'accepted'
\* before they write its credit, so in every state, the states a failed
\* write leaves included, every users entry that credits have made or
\* raised belongs to a user with an 'accepted' record in verifications: no
\* credit stands for a record that is pending or not in the collection.
C19_CreditsBacked ==
    \A i \in 1..Len(Ledger) :
        \E j \in 1..Len(Vers) :
            Vers[j].user = Ledger[i].name /\ Vers[j].status = "accepted"

====
